---- MODULE Spec2Model ----
(***************************************************************************)
(* Model of src/gemini.py: the reference lookup (fetch_umls_data), the     *)
(* concept extractor (extract_key_concepts), the coverage validator        *)
(* (validate_response_coverage), the response parser                       *)
(* (parse_gemini_response) and the bounded retry loop (query_gemini); and  *)
(* of the two handlers of src/main.py that add a term.                     *)
(*                                                                         *)
(* Four specifications share the module: Spec (FairSpec with fairness) is  *)
(* one invocation of query_gemini; ParserSpec is one call of               *)
(* parse_gemini_response taken line by line; HandlerSpec is one request to *)
(* /add-medical-term or /add-term; ConcurrentSpec is two invocations of    *)
(* query_gemini whose steps interleave.  Each keeps the variables of the   *)
(* other machines at their idle values.                                    *)
(*                                                                         *)
(* Strings are sequences of tokens.  A token is a whitespace character     *)
(* (" " or "\n"), a punctuation mark (":", the bullet, "**"), one of the   *)
(* four section headers in upper or lower case, or a word.  str.strip,     *)
(* str.split, str.replace, str.startswith, ' '.join and the two regular    *)
(* expression calls are modelled by what they do to such a sequence.       *)
(* A float n/d is the reduced fraction <<n, d>>.                           *)
(***************************************************************************)
EXTENDS Integers, Sequences, FiniteSets, TLC

\* ------------------------------------------------------------------ bounds
MaxAttempts == 3

\* the longest text given to the parser, in lines
MaxLines == 3

\* ------------------------------------------------------------- characters
SP == " "
NL == "\n"
COLON == ":"
BULLET == "*bullet*"
BOLD == "**"

Whitespace == {SP, NL}

\* Section headers as written by the prompt, and a lower-case spelling of each
\* (the patterns are matched with re.IGNORECASE).
HeaderSpellings ==
  [simple_explanation         |-> {"SIMPLE EXPLANATION", "simple explanation"},
   signs_to_notice            |-> {"SIGNS TO NOTICE", "signs to notice"},
   care_advice                |-> {"CARE ADVICE", "care advice"},
   doctor_consultation_advice |-> {"DOCTOR CONSULTATION", "doctor consultation"}]

SectionNames == DOMAIN HeaderSpellings

HeaderTokens == UNION {HeaderSpellings[s] : s \in SectionNames}

\* ----------------------------------------------------------- str helpers
RECURSIVE LStrip(_)
LStrip(s) ==
  IF s = <<>> THEN s
  ELSE IF Head(s) \in Whitespace THEN LStrip(Tail(s)) ELSE s

RECURSIVE RStrip(_)
RStrip(s) ==
  IF s = <<>> THEN s
  ELSE IF s[Len(s)] \in Whitespace THEN RStrip(SubSeq(s, 1, Len(s) - 1)) ELSE s

\* str.strip()
Strip(s) == RStrip(LStrip(s))

\* str.split("\n"): always at least one (possibly empty) piece
RECURSIVE SplitNL(_, _)
SplitNL(s, cur) ==
  IF s = <<>> THEN <<cur>>
  ELSE IF Head(s) = NL THEN <<cur>> \o SplitNL(Tail(s), <<>>)
  ELSE SplitNL(Tail(s), Append(cur, Head(s)))

\* number of words inside one token (a header token holds several)
WordsIn(tok) ==
  IF tok \in Whitespace THEN 0
  ELSE IF tok \in HeaderSpellings.signs_to_notice THEN 3
  ELSE IF tok \in HeaderTokens THEN 2
  ELSE 1

\* len(str.split()): the number of whitespace-delimited words.  Adjacent
\* non-whitespace tokens form one word; a header token brings its inner
\* spaces with it.
RECURSIVE WordCount(_, _)
WordCount(s, inWord) ==
  IF s = <<>> THEN 0
  ELSE IF Head(s) \in Whitespace THEN WordCount(Tail(s), FALSE)
  ELSE (IF inWord THEN WordsIn(Head(s)) - 1 ELSE WordsIn(Head(s)))
       + WordCount(Tail(s), TRUE)

\* ' '.join(list of strings)
RECURSIVE JoinSP(_)
JoinSP(ss) ==
  IF ss = <<>> THEN <<>>
  ELSE IF Len(ss) = 1 THEN ss[1]
  ELSE ss[1] \o <<SP>> \o JoinSP(Tail(ss))

\* the marker is left in the entry
RemoveNothing(s, old) == s

\* str.replace(old, ""): every occurrence of the token is removed
Remove(s, old) == SelectSeq(s, LAMBDA t : t # old)

RECURSIVE GCD(_, _)
GCD(a, b) == IF b = 0 THEN a ELSE GCD(b, a % b)

\* the float n / d
Frac(n, d) == LET g == GCD(n, d) IN <<n \div g, d \div g>>

One == <<1, 1>>
Zero == <<0, 1>>

\* ------------------------------------------------------------- the tagger
\* nlp(text) is the external tagging model (spaCy).  It is modelled by a fixed
\* table: the tokens it yields for each token of the text, each with the
\* length of its surface form, its lemma and its part of speech.
Tok(len, lemma, pos) == [len |-> len, lemma |-> lemma, pos |-> pos]

TagTable(tok) ==
  CASE tok = "fever"      -> <<Tok(5, "fever", "NOUN")>>
    [] tok = "Fevers"     -> <<Tok(6, "Fever", "NOUN")>>
    [] tok = "cough"      -> <<Tok(5, "cough", "NOUN")>>
    [] tok = "contagion"  -> <<Tok(9, "contagion", "NOUN")>>
    [] tok = "rest"       -> <<Tok(4, "rest", "NOUN")>>
    [] tok = "Flu"        -> <<Tok(3, "Flu", "PROPN")>>
    [] tok = "asthma"     -> <<Tok(6, "asthma", "NOUN")>>
    [] tok = "ox"         -> <<Tok(2, "ox", "NOUN")>>
    [] tok = "is"         -> <<Tok(2, "be", "AUX")>>
    [] tok = "very"       -> <<Tok(4, "very", "ADV")>>
    [] tok = "None"       -> <<Tok(4, "none", "NOUN")>>
    [] tok \in Whitespace -> <<Tok(1, tok, "SPACE")>>
    [] tok \in {COLON, BULLET, BOLD} -> <<Tok(1, tok, "PUNCT")>>
    [] tok \in HeaderSpellings.simple_explanation ->
         <<Tok(6, "simple", "ADJ"), Tok(11, "explanation", "NOUN")>>
    [] tok \in HeaderSpellings.signs_to_notice ->
         <<Tok(5, "sign", "NOUN"), Tok(2, "to", "PART"), Tok(6, "notice", "VERB")>>
    [] tok \in HeaderSpellings.care_advice ->
         <<Tok(4, "care", "NOUN"), Tok(6, "advice", "NOUN")>>
    [] tok \in HeaderSpellings.doctor_consultation_advice ->
         <<Tok(6, "doctor", "NOUN"), Tok(12, "consultation", "NOUN")>>
    [] tok = "Could not generate an explanation for" ->
         <<Tok(5, "could", "AUX"), Tok(3, "not", "PART"), Tok(8, "generate", "VERB"),
           Tok(2, "an", "DET"), Tok(11, "explanation", "NOUN"), Tok(3, "for", "ADP")>>
    [] OTHER -> <<Tok(1, tok, "X")>>

RECURSIVE nlp(_)
nlp(text) == IF text = <<>> THEN <<>> ELSE TagTable(Head(text)) \o nlp(Tail(text))

\* str.lower() on the lemmas of the table
Lower(w) ==
  CASE w = "Fever" -> "fever"
    [] w = "Flu"   -> "flu"
    [] OTHER       -> w

\* -------------------------------------------------- extract_key_concepts
\* The source returns list(set(...)); the callers use only its set and its
\* length (the number of distinct concepts).
extract_key_concepts(text) ==
  IF text = <<>> THEN {}
  ELSE LET doc == nlp(text)
       IN {Lower(doc[i].lemma) :
             i \in {j \in 1..Len(doc) : doc[j].pos \in {"NOUN", "PROPN"} /\ doc[j].len > 2}}

\* -------------------------------------------- validate_response_coverage
\* gemini_response.get(key, default)
Get(d, key, default) == IF key \in DOMAIN d THEN d[key] ELSE default

\* response_text without its last part
response_text_no_doctor(gemini_response) ==
  JoinSP(<<Get(gemini_response, "simple_explanation", <<>>),
           JoinSP(Get(gemini_response, "signs_to_notice", <<>>)),
           JoinSP(Get(gemini_response, "care_advice", <<>>))>>)

response_text(gemini_response) ==
  JoinSP(<<Get(gemini_response, "simple_explanation", <<>>),
           JoinSP(Get(gemini_response, "signs_to_notice", <<>>)),
           JoinSP(Get(gemini_response, "care_advice", <<>>)),
           Get(gemini_response, "doctor_consultation_advice", <<>>)>>)

\* validate_response_coverage without the early return for an empty definition
validate_response_coverage_no_empty_check(umls_def, gemini_response) ==
  LET umls_concepts == extract_key_concepts(umls_def)
      response_concepts == extract_key_concepts(response_text(gemini_response))
      matching_concepts == umls_concepts \cap response_concepts
  IN IF umls_concepts # {}
     THEN Frac(Cardinality(matching_concepts), Cardinality(umls_concepts))
     ELSE Zero

\* The threshold parameter (default 0.4) is accepted and never read.
validate_response_coverage(umls_def, gemini_response) ==
  IF umls_def = <<>> THEN One
  ELSE LET umls_concepts == extract_key_concepts(umls_def)
           response_concepts == extract_key_concepts(response_text(gemini_response))
           matching_concepts == umls_concepts \cap response_concepts
       IN IF umls_concepts # {}
          THEN Frac(Cardinality(matching_concepts), Cardinality(umls_concepts))
          ELSE Zero

\* ------------------------------------------------ parse_gemini_response
EmptySections ==
  [simple_explanation |-> <<>>, signs_to_notice |-> <<>>,
   care_advice |-> <<>>, doctor_consultation_advice |-> <<>>]

NoSection == "None"

\* re.search in place of re.match: the header anywhere in the line
MatchesHeaderAnywhere(line, section) ==
  \E i \in 1..Len(line) : line[i] \in HeaderSpellings[section]

\* re.match(r"^<HEADER>[:\s]*", line, re.IGNORECASE)
MatchesHeader(line, section) ==
  line # <<>> /\ Head(line) \in HeaderSpellings[section]

\* the run [:\s]* that the pattern consumes after the header
RECURSIVE SkipColonSpace(_)
SkipColonSpace(s) ==
  IF s = <<>> THEN s
  ELSE IF Head(s) = COLON \/ Head(s) \in Whitespace THEN SkipColonSpace(Tail(s))
  ELSE s

\* the text after the header is dropped, as for the two list headers
HeaderRestDropped(line) == <<>>

\* re.sub(r"^<HEADER>[:\s]*", "", line, flags=re.IGNORECASE).strip()
HeaderRest(line) == Strip(SkipColonSpace(Tail(line)))

\* a prefix test that never succeeds
StartsWithNever(line, tok) == FALSE

\* line.startswith(prefix)
StartsWith(line, tok) == line # <<>> /\ Head(line) = tok

\* One iteration of the loop over the lines: st is [sections, current_section].
ParseLine(st, rawline) ==
  LET line == Strip(rawline)
      sections == st.sections
      cur == st.current_section
  IN IF MatchesHeader(line, "simple_explanation")
     THEN [sections |-> [sections EXCEPT !.simple_explanation = HeaderRest(line)],
           current_section |-> "simple_explanation"]
     ELSE IF MatchesHeader(line, "signs_to_notice")
     THEN [st EXCEPT !.current_section = "signs_to_notice"]
     ELSE IF MatchesHeader(line, "care_advice")
     THEN [st EXCEPT !.current_section = "care_advice"]
     ELSE IF MatchesHeader(line, "doctor_consultation_advice")
     THEN [sections |-> [sections EXCEPT !.doctor_consultation_advice = HeaderRest(line)],
           current_section |-> "doctor_consultation_advice"]
     ELSE IF cur = "signs_to_notice" /\ StartsWith(line, BULLET)
     THEN [st EXCEPT !.sections.signs_to_notice = Append(@, Strip(Remove(line, BULLET)))]
     ELSE IF cur = "care_advice" /\ StartsWith(line, BULLET)
     THEN [st EXCEPT !.sections.care_advice = Append(@, Strip(Remove(line, BULLET)))]
     ELSE IF cur = "simple_explanation" /\ ~StartsWith(line, BOLD)
     THEN [st EXCEPT !.sections.simple_explanation = @ \o <<SP>> \o Strip(line)]
     ELSE st

RECURSIVE ParseLines(_, _)
ParseLines(st, lines) ==
  IF lines = <<>> THEN st ELSE ParseLines(ParseLine(st, Head(lines)), Tail(lines))

parse_gemini_response(text) ==
  ParseLines([sections |-> EmptySections, current_section |-> NoSection],
             SplitNL(Strip(text), <<>>)).sections

\* ------------------------------------------------------- fetch_umls_data
\* What the two UMLS requests answer: the search either fails (transport or
\* HTTP status), finds nothing, or finds a CUI; the definitions request then
\* either fails or returns a list of definition strings.
DefFever == <<"fever", SP, "cough", SP, "contagion">>
DefNoConcept == <<"is", SP, "very">>
DefOther == <<"asthma">>

LookupResponses ==
  {[search |-> "error"], [search |-> "empty"],
   [search |-> "found", definitions |-> "error"],
   [search |-> "found", definitions |-> <<>>],
   [search |-> "found", definitions |-> <<DefFever, DefOther>>],
   [search |-> "found", definitions |-> <<DefNoConcept>>]}

\* fetch_umls_data whose except clause reports the failure as a definition
fetch_umls_data_error_text(t, resp) ==
  IF resp.search = "error" THEN [term |-> t, definitions |-> <<<<"error">>>>]
  ELSE IF resp.search = "empty" THEN [term |-> t, definitions |-> <<>>]
  ELSE IF resp.definitions = "error" THEN [term |-> t, definitions |-> <<<<"error">>>>]
  ELSE [term |-> t, cui |-> "C1", definitions |-> resp.definitions]

fetch_umls_data(t, resp) ==
  IF resp.search = "error" THEN [term |-> t, definitions |-> <<>>]
  ELSE IF resp.search = "empty" THEN [term |-> t, definitions |-> <<>>]
  ELSE IF resp.definitions = "error" THEN [term |-> t, definitions |-> <<>>]
  ELSE [term |-> t, cui |-> "C1", definitions |-> resp.definitions]

\* umls_data['definitions'][0] if umls_data['definitions'] else ''
first_definition(umls_data) ==
  IF umls_data.definitions # <<>> THEN umls_data.definitions[1] ELSE <<>>

\* ----------------------------------------------------------- query_gemini
\* Python's None and a str, for the optional simplified_explanation
None == [none |-> TRUE]
Str(s) == [str |-> s]

\* how an f-string renders the value
Format(v) == IF "none" \in DOMAIN v THEN <<"None">> ELSE v.str

\* words of the prompt template around the three interpolated values
PromptTemplateWords == 79

\* len(prompt.split())
prompt_words(t, umls_def, explanation) ==
  PromptTemplateWords + WordCount(t, FALSE) + WordCount(umls_def, FALSE)
    + WordCount(Format(explanation), FALSE)

\* the count without the words of the prompt
api_tokens_used_response_only(t, umls_def, explanation, text) == WordCount(text, FALSE)

\* api_tokens_used
api_tokens_used(t, umls_def, explanation, text) ==
  prompt_words(t, umls_def, explanation) + WordCount(text, FALSE)

\* the default of the threshold parameter of validate_response_coverage, 0.4
threshold == <<2, 5>>

\* a >= b on floats
GE(a, b) == a[1] * b[2] >= b[1] * a[2]

\* a test that every coverage passes
TruthyAlways(cov) == TRUE

\* `if validate_response_coverage(...)`: the truth value of a float
Truthy(cov) == cov[1] # 0

AcceptedResult(t, parsed, umls_def, tokens) ==
  [term |-> t, medical_details |-> parsed,
   umls_definition |-> umls_def, total_tokens |-> tokens]

CouldNot == "Could not generate an explanation for"
ErrorMarker == "Could not generate an accurate medical explanation"

\* FallbackResult without the error key
FallbackResultNoError(t, explanation) ==
  [term |-> t,
   medical_details |-> [simple_explanation |-> <<CouldNot, SP>> \o t],
   fallback_explanation |-> explanation]

FallbackResult(t, explanation) ==
  [term |-> t,
   medical_details |-> [simple_explanation |-> <<CouldNot, SP>> \o t],
   error |-> ErrorMarker,
   fallback_explanation |-> explanation]

\* range(max_attempts + 1)
LoopContinuesOffByOne(a, n) == a <= n

\* `for attempt in range(max_attempts)`: is there another iteration
LoopContinues(a, n) == a < n

\* an except clause that re-raises
ExceptionHandlerReraise(a) == [pc |-> "raised", attempt |-> a]

\* an except clause that retries the same attempt
ExceptionHandlerRetry(a) == [pc |-> "loop", attempt |-> a]

\* The except clause of the loop body: the exception is printed and
\* swallowed, and the for loop moves on to the next value of attempt.
ExceptionHandler(a) == [pc |-> "loop", attempt |-> a + 1]

\* a rejection that goes back to the lookup before the next attempt
CoverageFailedLookupAgain(a) == [pc |-> "start", attempt |-> a + 1]

\* The else branch of the coverage test: a message is printed and the for
\* loop moves on.
CoverageFailed(a) == [pc |-> "loop", attempt |-> a + 1]

\* ---------------------------------------------------------------- inputs
Terms == {<<"Flu">>, <<"asthma">>}
Explanations == {None, Str(<<"rest">>)}

TextFull ==
  <<"SIMPLE EXPLANATION", COLON, SP, "fever", NL,
    "SIGNS TO NOTICE", COLON, NL, BULLET, SP, "cough", NL,
    "CARE ADVICE", COLON, NL, BULLET, SP, "rest", NL,
    "DOCTOR CONSULTATION", COLON, SP, "contagion", NL>>
TextTwoThirds ==
  <<"SIMPLE EXPLANATION", COLON, NL, "Fevers", SP, "is", SP, "very", NL,
    "SIGNS TO NOTICE", COLON, NL, BULLET, SP, "cough", NL, BULLET, SP, "rest">>
TextOneThird ==
  <<"simple explanation", COLON, SP, "fever", NL,
    "care advice", NL, BULLET, "rest", NL, "cough">>
TextNoOverlap ==
  <<"SIMPLE EXPLANATION", COLON, SP, "rest", SP, "is", SP, "ox">>
TextNoHeader == <<"fever", SP, "cough", NL, BULLET, SP, "contagion">>

ResponseTexts == {TextFull, TextTwoThirds, TextOneThird, TextNoOverlap, TextNoHeader}

\* What the generator answers on one call: an error (the request fails,
\* the status is an error, or the body lacks candidates[0].content.parts[0].text)
\* or a text.
GeneratorOutcomes ==
  {[kind |-> "error"]} \cup {[kind |-> "text", text |-> x] : x \in ResponseTexts}

\* the answer to the n-th call; calls beyond the scripted ones fail
GeneratorAnswer(gen, n) == IF n \in DOMAIN gen THEN gen[n] ELSE [kind |-> "error"]

NoResult == [none |-> TRUE]
NoCoverage == <<>>

VARIABLES
  \* ---- one invocation of query_gemini
  term,                    \* argument
  simplified_explanation,  \* argument
  max_attempts,            \* argument
  generator,               \* what the generator answers on its 1st, 2nd, ... call
  pc,                      \* "start", "loop", "done", "raised"
  umls_definition,
  lookups,                 \* calls of fetch_umls_data so far
  attempt,                 \* the loop variable
  calls,                   \* calls of the generator so far
  gemini_response_text,    \* of the last call that returned a text
  parsed_response,
  coverage,                \* of the last call that returned a text
  accepted,                \* an attempt passed the coverage test
  result,                  \* the return value
  \* ---- one call of parse_gemini_response, line by line
  parser_pc,               \* "idle", "start", "loop", "done"
  raw_text,                \* argument response_text
  unread,                  \* the lines the for loop has not read yet
  parser,                  \* [sections, current_section]
  returned,                \* the return value
  \* ---- one request to POST /add-medical-term or POST /add-term (main.py)
  route,
  request,                 \* [term, simplified_explanation]
  handler_pc,              \* "idle", "start", "explained", "scored", "responded"
  medical_details,
  handler_definitions,     \* the definitions list of the handler's own lookup
  concept_coverage,
  db_outcome,              \* how the write to the table ended: "none", "ok", "errors", "raises"
  table,                   \* the rows written to the BigQuery table
  http_response,           \* the value the handler returns
  \* ---- two invocations of query_gemini running concurrently
  inv_args,                \* per invocation: its arguments and its collaborators' answers
  inv_pc,                  \* per invocation: "idle", "start", "loop", "parsed", "done"
  inv_calls,               \* per invocation: calls of the generator so far
  inv_result,              \* per invocation: the return value
  frames                   \* per frame: the local variables of a call

query_vars == <<term, simplified_explanation, max_attempts, generator, pc,
                umls_definition, lookups, attempt, calls, gemini_response_text,
                parsed_response, coverage, accepted, result>>

parser_vars == <<parser_pc, raw_text, unread, parser, returned>>

handler_vars == <<route, request, handler_pc, medical_details, handler_definitions,
                  concept_coverage, db_outcome, table, http_response>>

invocation_vars == <<inv_args, inv_pc, inv_calls, inv_result, frames>>

vars == <<query_vars, parser_vars, handler_vars, invocation_vars>>

\* The state of a machine that a specification does not run.
QueryIdle ==
  /\ term = <<>> /\ simplified_explanation = None /\ max_attempts = 0
  /\ generator = <<>> /\ pc = "idle" /\ umls_definition = <<>>
  /\ lookups = 0 /\ attempt = 0 /\ calls = 0
  /\ gemini_response_text = <<>> /\ parsed_response = NoResult
  /\ coverage = NoCoverage /\ accepted = FALSE /\ result = NoResult

ParserIdle ==
  /\ parser_pc = "idle" /\ raw_text = <<>> /\ unread = <<>>
  /\ parser = NoResult /\ returned = NoResult

HandlerIdle ==
  /\ route = "idle" /\ request = NoResult /\ handler_pc = "idle"
  /\ medical_details = NoResult /\ handler_definitions = NoResult
  /\ concept_coverage = NoCoverage
  /\ db_outcome = "none" /\ table = <<>> /\ http_response = NoResult

InvocationsIdle ==
  /\ inv_args = <<>> /\ inv_pc = <<>> /\ inv_calls = <<>>
  /\ inv_result = <<>> /\ frames = <<>>

args == <<term, simplified_explanation, max_attempts, generator>>

Init ==
  /\ term \in Terms
  /\ simplified_explanation \in Explanations
  /\ max_attempts \in 0..MaxAttempts
  /\ generator \in [1..max_attempts -> GeneratorOutcomes]
  /\ pc = "start"
  /\ umls_definition = <<>>
  /\ lookups = 0
  /\ attempt = 0
  /\ calls = 0
  /\ gemini_response_text = <<>>
  /\ parsed_response = NoResult
  /\ coverage = NoCoverage
  /\ accepted = FALSE
  /\ result = NoResult
  /\ ParserIdle /\ HandlerIdle /\ InvocationsIdle

\* lines 149-150
FetchUmls ==
  /\ pc = "start"
  /\ \E resp \in LookupResponses :
       umls_definition' = first_definition(fetch_umls_data(term, resp))
  /\ lookups' = lookups + 1
  /\ pc' = "loop"
  /\ UNCHANGED <<args, attempt, calls, gemini_response_text, parsed_response,
                 coverage, accepted, result>>
  /\ UNCHANGED <<parser_vars, handler_vars, invocation_vars>>

\* lines 178-187 raise; lines 212-218 handle
GeneratorFails ==
  /\ pc = "loop"
  /\ LoopContinues(attempt, max_attempts)
  /\ GeneratorAnswer(generator, calls + 1).kind = "error"
  /\ calls' = calls + 1
  /\ pc' = ExceptionHandler(attempt).pc
  /\ attempt' = ExceptionHandler(attempt).attempt
  /\ UNCHANGED <<args, umls_definition, lookups, gemini_response_text,
                 parsed_response, coverage, accepted, result>>
  /\ UNCHANGED <<parser_vars, handler_vars, invocation_vars>>

\* parse_gemini_response and validate_response_coverage are pure; they are
\* tabulated over the texts and the reference definitions of the model, so
\* that each is evaluated once and not once per state.
DefinitionsOf(T, R) ==
  {first_definition(fetch_umls_data(t, resp)) : t \in T, resp \in R}

Definitions == DefinitionsOf(Terms, LookupResponses)

RECURSIVE ParsedTable(_)
ParsedTable(S) ==
  IF S = {} THEN <<>>
  ELSE LET x == CHOOSE x \in S : TRUE
       IN (x :> parse_gemini_response(x)) @@ ParsedTable(S \ {x})

ParsedOf == ParsedTable(ResponseTexts)

RECURSIVE CoverageTable(_)
CoverageTable(S) ==
  IF S = {} THEN <<>>
  ELSE LET k == CHOOSE k \in S : TRUE
       IN (k :> validate_response_coverage(k[1], ParsedOf[k[2]]))
            @@ CoverageTable(S \ {k})

CoverageOf == CoverageTable(Definitions \X ResponseTexts)

\* lines 187-202: the text of the generator's answer to the coming call, its
\* parse, its score and the token count
answer_text == GeneratorAnswer(generator, calls + 1).text
answer_parsed == ParsedOf[answer_text]
answer_coverage == CoverageOf[umls_definition, answer_text]
answer_tokens ==
  api_tokens_used(term, umls_definition, simplified_explanation, answer_text)

\* lines 178-208: the generator answers, the answer is parsed and scored,
\* and the score is truthy
AttemptAccepted ==
  /\ pc = "loop"
  /\ LoopContinues(attempt, max_attempts)
  /\ GeneratorAnswer(generator, calls + 1).kind = "text"
  /\ gemini_response_text' = answer_text
  /\ parsed_response' = answer_parsed
  /\ coverage' = answer_coverage
  /\ Truthy(coverage')
  /\ result' = AcceptedResult(term, answer_parsed, umls_definition, answer_tokens)
  /\ calls' = calls + 1
  /\ accepted' = TRUE
  /\ pc' = "done"
  /\ UNCHANGED <<args, umls_definition, lookups, attempt>>
  /\ UNCHANGED <<parser_vars, handler_vars, invocation_vars>>

\* lines 178-210: as above, and the score is falsy
AttemptRejected ==
  /\ pc = "loop"
  /\ LoopContinues(attempt, max_attempts)
  /\ GeneratorAnswer(generator, calls + 1).kind = "text"
  /\ gemini_response_text' = answer_text
  /\ parsed_response' = answer_parsed
  /\ coverage' = answer_coverage
  /\ ~Truthy(coverage')
  /\ calls' = calls + 1
  /\ pc' = CoverageFailed(attempt).pc
  /\ attempt' = CoverageFailed(attempt).attempt
  /\ UNCHANGED <<args, umls_definition, lookups, accepted, result>>
  /\ UNCHANGED <<parser_vars, handler_vars, invocation_vars>>

\* lines 220-228
ReturnFallback ==
  /\ pc = "loop"
  /\ ~LoopContinues(attempt, max_attempts)
  /\ result' = FallbackResult(term, simplified_explanation)
  /\ pc' = "done"
  /\ UNCHANGED <<args, umls_definition, lookups, attempt, calls,
                 gemini_response_text, parsed_response, coverage, accepted>>
  /\ UNCHANGED <<parser_vars, handler_vars, invocation_vars>>

Next ==
  \/ FetchUmls
  \/ GeneratorFails
  \/ AttemptAccepted
  \/ AttemptRejected
  \/ ReturnFallback

Spec == Init /\ [][Next]_vars

\* The calls are blocking and each returns or raises; the interpreter runs the
\* function to its return.
FairSpec == Spec /\ WF_vars(Next)

\* ============================ parse_gemini_response, one line at a time
\* The lines a text is made of: each header in either case, with and without
\* text after it; bullet lines, one of them with a second marker and with
\* whitespace around it; a plain line, a bold line, an empty line, and a line
\* that holds a header after its first word.
ParserLines ==
  {<<"SIMPLE EXPLANATION", COLON, SP, "fever">>,
   <<"simple explanation", COLON>>,
   <<"SIGNS TO NOTICE", COLON>>,
   <<"care advice", SP, "rest">>,
   <<"DOCTOR CONSULTATION", COLON, SP, "contagion">>,
   <<BULLET, SP, "cough">>,
   <<SP, BULLET, "rest", SP, BULLET, "ox", SP>>,
   <<"cough", SP, "is">>,
   <<BOLD, "fever", BOLD>>,
   <<>>,
   <<"cough", SP, "SIGNS TO NOTICE", COLON>>}

\* "\n".join(list of strings)
RECURSIVE JoinNL(_)
JoinNL(ss) ==
  IF ss = <<>> THEN <<>>
  ELSE IF Len(ss) = 1 THEN ss[1]
  ELSE ss[1] \o <<NL>> \o JoinNL(Tail(ss))

\* every text of at most n of these lines
TextsUpTo(n) == {JoinNL(ss) : ss \in UNION {[1..k -> ParserLines] : k \in 0..n}}

ParserInit ==
  /\ raw_text \in TextsUpTo(MaxLines)
  /\ parser_pc = "start"
  /\ unread = <<>>
  /\ parser = NoResult
  /\ returned = NoResult
  /\ QueryIdle /\ HandlerIdle /\ InvocationsIdle

\* lines 108-116
ParserBegin ==
  /\ parser_pc = "start"
  /\ unread' = SplitNL(Strip(raw_text), <<>>)
  /\ parser' = [sections |-> EmptySections, current_section |-> NoSection]
  /\ parser_pc' = "loop"
  /\ UNCHANGED <<raw_text, returned, query_vars, handler_vars, invocation_vars>>

\* lines 118-139: one iteration of `for line in lines`
ParserReadLine ==
  /\ parser_pc = "loop"
  /\ unread # <<>>
  /\ parser' = ParseLine(parser, Head(unread))
  /\ unread' = Tail(unread)
  /\ UNCHANGED <<parser_pc, raw_text, returned, query_vars, handler_vars,
                 invocation_vars>>

\* line 142
ParserReturn ==
  /\ parser_pc = "loop"
  /\ unread = <<>>
  /\ returned' = parser.sections
  /\ parser_pc' = "done"
  /\ UNCHANGED <<raw_text, unread, parser, query_vars, handler_vars,
                 invocation_vars>>

ParserNext ==
  \/ ParserBegin
  \/ ParserReadLine
  \/ ParserReturn

ParserSpec == ParserInit /\ [][ParserNext]_vars

\* ================================= main.py: the two handlers that add a term
\* token.is_stop of the tagger, for the words of the model
StopWords == {"is", "very"}

\* extract_medical_term: the first noun or proper noun longer than two
\* characters, else the first word longer than three that is no stop word,
\* else the input.  The tagger yields one token per word of the text.
extract_medical_term(input_text) ==
  LET words == SelectSeq(input_text, LAMBDA w : w \notin Whitespace)
      medical_terms ==
        SelectSeq(words, LAMBDA w : /\ TagTable(w)[1].pos \in {"PROPN", "NOUN"}
                                    /\ TagTable(w)[1].len > 2)
      longer == SelectSeq(words, LAMBDA w : TagTable(w)[1].len > 3 /\ w \notin StopWords)
  IN IF medical_terms # <<>> THEN <<medical_terms[1]>>
     ELSE IF longer # <<>> THEN <<longer[1]>>
     ELSE input_text

\* `if not simplified_explanation`: None and the empty string are falsy
NoExplanation(e) == "none" \in DOMAIN e \/ e.str = <<>>

\* What a call query_gemini(t, e) can return: an Accepted result for a
\* reference and a text whose coverage is truthy, or the Fallback.
GeminiResultsOf(t, e, K) ==
  {AcceptedResult(t, ParsedOf[k[2]], k[1], api_tokens_used(t, k[1], e, k[2])) :
     k \in {j \in K : Truthy(CoverageOf[j])}}
    \cup {FallbackResult(t, e)}

GeminiResults(t, e) == GeminiResultsOf(t, e, Definitions \X ResponseTexts)

\* str(e) of the IndexError raised by [][0]
IndexError == "list index out of range"

HandlerTerms == {<<"Flu">>, <<"is", SP, "asthma">>}
HandlerExplanations == {None, Str(<<>>), Str(<<"rest">>)}

HandlerInit ==
  /\ route \in {"/add-medical-term", "/add-term"}
  /\ request \in [term : HandlerTerms, simplified_explanation : HandlerExplanations]
  /\ handler_pc = "start"
  /\ medical_details = NoResult
  /\ handler_definitions = NoResult
  /\ concept_coverage = NoCoverage
  /\ db_outcome = "none"
  /\ table = <<>>
  /\ http_response = NoResult
  /\ QueryIdle /\ ParserIdle /\ InvocationsIdle

\* main.py lines 113-130
AddMedicalTermExplain ==
  /\ route = "/add-medical-term" /\ handler_pc = "start"
  /\ IF NoExplanation(request.simplified_explanation)
     THEN \E resp \in LookupResponses :
            \E improved_explanation \in
                 GeminiResults(extract_medical_term(request.term),
                   Str(first_definition(
                         fetch_umls_data(extract_medical_term(request.term), resp)))) :
              medical_details' = Get(improved_explanation, "medical_details", <<>>)
     ELSE medical_details' = [simple_explanation |-> request.simplified_explanation.str]
  /\ handler_pc' = "explained"
  /\ UNCHANGED <<route, request, handler_definitions, concept_coverage, db_outcome,
                 table, http_response,
                 query_vars, parser_vars, invocation_vars>>

\* main.py lines 136-140, and 170-177 when [0] of an empty list raises
AddMedicalTermCoverage ==
  /\ route = "/add-medical-term" /\ handler_pc = "explained"
  /\ \E resp \in LookupResponses :
       LET definitions ==
             Get(fetch_umls_data(extract_medical_term(request.term), resp),
                 "definitions", <<<<>>>>)
       IN /\ handler_definitions' = definitions
          /\ IF definitions = <<>>
             THEN /\ http_response' = [status |-> "error", details |-> IndexError]
                  /\ handler_pc' = "responded"
                  /\ UNCHANGED concept_coverage
             ELSE /\ concept_coverage' =
                       validate_response_coverage(definitions[1], medical_details)
                  /\ handler_pc' = "scored"
                  /\ UNCHANGED http_response
  /\ UNCHANGED <<route, request, medical_details, db_outcome, table,
                 query_vars, parser_vars, invocation_vars>>

\* the row a handler writes
Row(t) ==
  [Term |-> t,
   Simplified_Explanation |-> Get(medical_details, "simple_explanation", <<>>),
   Average_Concept_Coverage |-> concept_coverage]

\* main.py lines 142-168: the upsert succeeds or raises
AddMedicalTermUpsert ==
  /\ route = "/add-medical-term" /\ handler_pc = "scored"
  /\ \E outcome \in {"ok", "raises"} :
       /\ db_outcome' = outcome
       /\ table' = IF outcome = "ok"
                   THEN Append(table, Row(extract_medical_term(request.term)))
                   ELSE table
       /\ http_response' =
            [status |-> "success",
             term |-> extract_medical_term(request.term),
             database_status |-> IF outcome = "ok" THEN "Success" ELSE "Database Error",
             explanation |-> Get(medical_details, "simple_explanation", <<>>),
             concept_coverage |-> concept_coverage]
  /\ handler_pc' = "responded"
  /\ UNCHANGED <<route, request, handler_definitions, medical_details, concept_coverage,
                 query_vars, parser_vars, invocation_vars>>

\* main.py lines 183-194; with an explanation in the request the function
\* falls off its end and returns None
AddTermExplain ==
  /\ route = "/add-term" /\ handler_pc = "start"
  /\ IF NoExplanation(request.simplified_explanation)
     THEN \E gemini_explanation \in GeminiResults(request.term, None) :
            IF "error" \in DOMAIN gemini_explanation
            THEN /\ http_response' =
                      [status |-> "error",
                       message |-> "Could not generate explanation for the term"]
                 /\ handler_pc' = "responded"
                 /\ UNCHANGED medical_details
            ELSE /\ medical_details' = Get(gemini_explanation, "medical_details", <<>>)
                 /\ handler_pc' = "explained"
                 /\ UNCHANGED http_response
     ELSE /\ http_response' = None
          /\ handler_pc' = "responded"
          /\ UNCHANGED medical_details
  /\ UNCHANGED <<route, request, handler_definitions, concept_coverage, db_outcome, table,
                 query_vars, parser_vars, invocation_vars>>

\* main.py lines 196-207, and 227-231 when [0] of an empty list raises
AddTermCoverage ==
  /\ route = "/add-term" /\ handler_pc = "explained"
  /\ \E resp \in LookupResponses :
       LET definitions ==
             Get(fetch_umls_data(request.term, resp), "definitions", <<<<>>>>)
       IN /\ handler_definitions' = definitions
          /\ IF definitions = <<>>
             THEN /\ http_response' = [status |-> "error", message |-> IndexError]
                  /\ handler_pc' = "responded"
                  /\ UNCHANGED concept_coverage
             ELSE /\ concept_coverage' =
                       validate_response_coverage(definitions[1], medical_details)
                  /\ handler_pc' = "scored"
                  /\ UNCHANGED http_response
  /\ UNCHANGED <<route, request, medical_details, db_outcome, table,
                 query_vars, parser_vars, invocation_vars>>

\* main.py lines 210-231: insert_rows_json returns no error, returns errors,
\* or raises
AddTermInsert ==
  /\ route = "/add-term" /\ handler_pc = "scored"
  /\ \E outcome \in {"ok", "errors", "raises"} :
       /\ db_outcome' = outcome
       /\ table' = IF outcome = "ok" THEN Append(table, Row(request.term)) ELSE table
       /\ http_response' =
            IF outcome = "ok"
            THEN [status |-> "success", message |-> "Term added successfully",
                  term |-> request.term]
            ELSE IF outcome = "errors"
            THEN [status |-> "partial_error", message |-> "Term added with some issues",
                  errors |-> <<"insert error">>]
            ELSE [status |-> "error", message |-> "insert raised"]
  /\ handler_pc' = "responded"
  /\ UNCHANGED <<route, request, handler_definitions, medical_details, concept_coverage,
                 query_vars, parser_vars, invocation_vars>>

HandlerNext ==
  \/ AddMedicalTermExplain
  \/ AddMedicalTermCoverage
  \/ AddMedicalTermUpsert
  \/ AddTermExplain
  \/ AddTermCoverage
  \/ AddTermInsert

HandlerSpec == HandlerInit /\ [][HandlerNext]_vars

\* ===================== two invocations of query_gemini running concurrently
\* The handlers of main.py are plain `def` functions, which FastAPI runs on a
\* thread pool: two requests can be inside query_gemini at the same time, and
\* their steps interleave.
Invocations == {1, 2}

\* every invocation uses the frame of the first one, as with module-level
\* variables
FrameShared(i) == 1

\* The frame that holds the local variables of invocation i (umls_data,
\* umls_definition, attempt, gemini_response_text, parsed_response, and the
\* sections and current_section of the parser): each call has its own; the
\* module-level names of gemini.py are assigned once, at import.
Frame(i) == i

NewFrame(umls_def) ==
  [umls_definition |-> umls_def, attempt |-> 0,
   gemini_response_text |-> <<>>, parsed_response |-> NoResult]

\* the answers of the collaborators in this specification
ConcurrentOutcomes == {[kind |-> "error"], [kind |-> "text", text |-> TextFull]}
ConcurrentLookups ==
  {[search |-> "error"], [search |-> "found", definitions |-> <<DefNoConcept>>]}

\* the arguments of an invocation for term t, with the answers its
\* collaborators will give it
InvocationArgs(t) ==
  UNION {[term : {t}, simplified_explanation : {None}, max_attempts : {n},
          generator : [1..n -> ConcurrentOutcomes], lookup : ConcurrentLookups] :
           n \in 0..MaxAttempts}

ConcurrentInit ==
  /\ inv_args \in {<<a1, a2>> : a1 \in InvocationArgs(<<"Flu">>),
                                a2 \in InvocationArgs(<<"asthma">>)}
  /\ inv_pc = [i \in Invocations |-> "start"]
  /\ inv_calls = [i \in Invocations |-> 0]
  /\ inv_result = [i \in Invocations |-> NoResult]
  /\ frames = [i \in Invocations |-> NewFrame(<<>>)]
  /\ QueryIdle /\ ParserIdle /\ HandlerIdle

\* lines 149-153
CFetchUmls(i) ==
  /\ inv_pc[i] = "start"
  /\ frames' = [frames EXCEPT ![Frame(i)] =
                  NewFrame(first_definition(
                             fetch_umls_data(inv_args[i].term, inv_args[i].lookup)))]
  /\ inv_pc' = [inv_pc EXCEPT ![i] = "loop"]
  /\ UNCHANGED <<inv_args, inv_calls, inv_result, query_vars, parser_vars, handler_vars>>

\* lines 178-187 raise; lines 212-218 handle
CGeneratorFails(i) ==
  /\ inv_pc[i] = "loop"
  /\ LoopContinues(frames[Frame(i)].attempt, inv_args[i].max_attempts)
  /\ GeneratorAnswer(inv_args[i].generator, inv_calls[i] + 1).kind = "error"
  /\ inv_calls' = [inv_calls EXCEPT ![i] = @ + 1]
  /\ inv_pc' = [inv_pc EXCEPT ![i] = ExceptionHandler(frames[Frame(i)].attempt).pc]
  /\ frames' = [frames EXCEPT ![Frame(i)].attempt = ExceptionHandler(@).attempt]
  /\ UNCHANGED <<inv_args, inv_result, query_vars, parser_vars, handler_vars>>

\* lines 178-194: the generator answers and the answer is parsed
CGeneratorAnswers(i) ==
  /\ inv_pc[i] = "loop"
  /\ LoopContinues(frames[Frame(i)].attempt, inv_args[i].max_attempts)
  /\ GeneratorAnswer(inv_args[i].generator, inv_calls[i] + 1).kind = "text"
  /\ inv_calls' = [inv_calls EXCEPT ![i] = @ + 1]
  /\ frames' = [frames EXCEPT
       ![Frame(i)].gemini_response_text =
          GeneratorAnswer(inv_args[i].generator, inv_calls[i] + 1).text,
       ![Frame(i)].parsed_response =
          ParsedOf[GeneratorAnswer(inv_args[i].generator, inv_calls[i] + 1).text]]
  /\ inv_pc' = [inv_pc EXCEPT ![i] = "parsed"]
  /\ UNCHANGED <<inv_args, inv_result, query_vars, parser_vars, handler_vars>>

\* the coverage of the parsed answer held in the frame
FrameCoverage(frame) ==
  validate_response_coverage(frame.umls_definition, frame.parsed_response)

\* lines 197-208
CAttemptAccepted(i) ==
  /\ inv_pc[i] = "parsed"
  /\ Truthy(FrameCoverage(frames[Frame(i)]))
  /\ inv_result' = [inv_result EXCEPT ![i] =
       AcceptedResult(inv_args[i].term,
                      frames[Frame(i)].parsed_response,
                      frames[Frame(i)].umls_definition,
                      api_tokens_used(inv_args[i].term,
                                      frames[Frame(i)].umls_definition,
                                      inv_args[i].simplified_explanation,
                                      frames[Frame(i)].gemini_response_text))]
  /\ inv_pc' = [inv_pc EXCEPT ![i] = "done"]
  /\ UNCHANGED <<inv_args, inv_calls, frames, query_vars, parser_vars, handler_vars>>

\* lines 197-210
CAttemptRejected(i) ==
  /\ inv_pc[i] = "parsed"
  /\ ~Truthy(FrameCoverage(frames[Frame(i)]))
  /\ inv_pc' = [inv_pc EXCEPT ![i] = CoverageFailed(frames[Frame(i)].attempt).pc]
  /\ frames' = [frames EXCEPT ![Frame(i)].attempt = CoverageFailed(@).attempt]
  /\ UNCHANGED <<inv_args, inv_calls, inv_result, query_vars, parser_vars, handler_vars>>

\* lines 220-228
CReturnFallback(i) ==
  /\ inv_pc[i] = "loop"
  /\ ~LoopContinues(frames[Frame(i)].attempt, inv_args[i].max_attempts)
  /\ inv_result' = [inv_result EXCEPT ![i] =
       FallbackResult(inv_args[i].term, inv_args[i].simplified_explanation)]
  /\ inv_pc' = [inv_pc EXCEPT ![i] = "done"]
  /\ UNCHANGED <<inv_args, inv_calls, frames, query_vars, parser_vars, handler_vars>>

ConcurrentNext ==
  \E i \in Invocations :
    \/ CFetchUmls(i)
    \/ CGeneratorFails(i)
    \/ CGeneratorAnswers(i)
    \/ CAttemptAccepted(i)
    \/ CAttemptRejected(i)
    \/ CReturnFallback(i)

ConcurrentSpec == ConcurrentInit /\ [][ConcurrentNext]_vars

\* ================================================================ claims
\* the coverage of the n-th answer of the generator against the reference
Score(n) ==
  validate_response_coverage(umls_definition, parse_gemini_response(generator[n].text))

IsText(n) == generator[n].kind = "text"

PassesThreshold(n) == IsText(n) /\ GE(Score(n), threshold)

AcceptedKeys == {"term", "medical_details", "umls_definition", "total_tokens"}

\* C1: the number of generator invocations made so far never exceeds
\* max_attempts, whatever the generator answers.
C1_CallsWithinBudget == calls <= max_attempts

\* C1 witness: a full budget of three calls was spent on a failure, a
\* rejection and an acceptance.
C1_Witness ==
  /\ pc = "done" /\ max_attempts = 3 /\ calls = 3 /\ accepted
  /\ generator[1].kind = "error" /\ IsText(2)

\* C2: an attempt is accepted only when its coverage is at least the threshold
\* 0.4; a coverage strictly between 0 and the threshold is rejected.
C2_AcceptedOnlyAtThreshold == accepted => GE(coverage, threshold)

\* C3: if every answer of the generator scores below the threshold, the
\* generator is invoked exactly max_attempts times and the Fallback result with
\* the error marker is returned.
C3_BelowThresholdExhaustsBudget ==
  (pc = "done" /\ \A n \in 1..max_attempts : IsText(n) /\ ~GE(Score(n), threshold))
    => (calls = max_attempts /\ "error" \in DOMAIN result)

\* C4: if attempt k is the first whose candidate passes the threshold, the
\* Accepted result is returned after exactly k generator invocations (the
\* function has returned: no later invocation occurs).
C4_FirstPassingAttemptReturns ==
  pc = "done" =>
    \A k \in 1..max_attempts :
      (PassesThreshold(k) /\ \A j \in 1..(k - 1) : ~PassesThreshold(j))
        => (accepted /\ calls = k /\ DOMAIN result = AcceptedKeys)

\* C5: every invocation eventually returns a value, whatever fails on the
\* way, and no exception reaches the caller.
C5_AlwaysReturns == <>(pc = "done" /\ result # NoResult) /\ [](pc # "raised")

\* C5 witness: the lookup found nothing, one call failed, a text was rejected,
\* another call failed, and the function returned the Fallback.
C5_Witness ==
  /\ pc = "done" /\ result # NoResult /\ max_attempts = 3 /\ calls = 3
  /\ generator[1].kind = "error" /\ IsText(2) /\ generator[3].kind = "error"
  /\ ~accepted /\ coverage = Zero

\* C6: a returned value is an Accepted mapping (term, medical_details with its
\* four fields, umls_definition, total_tokens, no error key) or a Fallback
\* mapping with the error key, and the error key is there exactly when no
\* attempt was accepted.
C6_ResultIsOneVariant ==
  /\ pc = "done" =>
       /\ \/ /\ DOMAIN result = AcceptedKeys
             /\ DOMAIN result.medical_details = SectionNames
          \/ "error" \in DOMAIN result
       /\ ("error" \in DOMAIN result) <=> ~accepted
  /\ pc # "done" => result = NoResult

\* C6 witness: a Fallback returned after a rejected answer.
C6_Witness ==
  pc = "done" /\ ~accepted /\ calls = 2 /\ coverage = Zero /\ "error" \in DOMAIN result

\* C7: with an empty reference definition every coverage is exactly 1.0, and
\* the first call of the generator that returns a text is accepted.
C7_EmptyReferenceAcceptsFirstText ==
  umls_definition = <<>> =>
    /\ coverage # NoCoverage => coverage = One
    /\ \A n \in 1..calls : IsText(n) => (accepted /\ calls = n /\ pc = "done")

\* C7 witness: a text without any header is accepted against the empty
\* reference, after a failed call.
C7_Witness ==
  /\ umls_definition = <<>> /\ accepted /\ calls = 2
  /\ parsed_response = EmptySections /\ coverage = One

\* the candidate's text: the four parts joined by single spaces
C8_CandidateText(p) ==
  p.simple_explanation \o <<SP>> \o JoinSP(p.signs_to_notice) \o <<SP>>
    \o JoinSP(p.care_advice) \o <<SP>> \o p.doctor_consultation_advice

\* C8: for a reference with a non-empty concept set R and a candidate with
\* concept set C (from the four parts joined), the coverage is |R /\ C| / |R|,
\* and 0.0 when R and C are disjoint.
C8_CoverageIsOverlapFraction ==
  LET R == extract_key_concepts(umls_definition)
      C == extract_key_concepts(C8_CandidateText(parsed_response))
  IN (coverage # NoCoverage /\ umls_definition # <<>> /\ R # {}) =>
       /\ coverage[1] * Cardinality(R) = Cardinality(R \cap C) * coverage[2]
       /\ coverage[2] > 0
       /\ (R \cap C = {} => coverage = Zero)

\* C8 witness: all three reference concepts are found, the last of them only
\* in doctor_consultation_advice.
C8_Witness ==
  /\ umls_definition = DefFever /\ coverage = One
  /\ parsed_response # NoResult
  /\ parsed_response.doctor_consultation_advice = <<"contagion">>

\* C9: a non-empty reference definition with no extractable concept gives
\* coverage 1.0.
C9_NoConceptReferenceIsFullCoverage ==
  (coverage # NoCoverage /\ umls_definition # <<>>
     /\ extract_key_concepts(umls_definition) = {}) => coverage = One

\* C10: a failing generator call consumes exactly one attempt, returns
\* nothing, leaves term and reference definition alone, and the loop goes on.
C10_FailureConsumesOneAttempt ==
  [][(calls' = calls + 1 /\ GeneratorAnswer(generator, calls + 1).kind = "error") =>
       /\ attempt' = attempt + 1
       /\ pc' = "loop"
       /\ result' = result /\ accepted' = accepted
       /\ term' = term /\ umls_definition' = umls_definition
       /\ simplified_explanation' = simplified_explanation
       /\ max_attempts' = max_attempts]_vars

\* C10 witness: the first call failed and the second attempt is about to run.
C10_Witness ==
  /\ pc = "loop" /\ calls = 1 /\ attempt = 1 /\ max_attempts >= 2
  /\ generator[1].kind = "error"

\* the lookups that fail (either request) or return no definitions
C11_FailedLookups ==
  {resp \in LookupResponses :
     resp.search # "found" \/ resp.definitions = "error" \/ resp.definitions = <<>>}

\* C11: when the lookup fails or returns no definitions, query_gemini goes on:
\* the reference definition is the empty string, nothing is returned or
\* raised, and the loop is entered at attempt 0 with no generator call spent,
\* so that it runs unless max_attempts is 0.
C11_FailedLookupEntersLoop ==
  [][\A resp \in C11_FailedLookups :
       (/\ pc = "start"
        /\ lookups' = lookups + 1
        /\ umls_definition' = first_definition(fetch_umls_data(term, resp)))
       => /\ umls_definition' = <<>>
          /\ pc' = "loop" /\ result' = NoResult
          /\ attempt' = 0 /\ calls' = 0 /\ max_attempts' = max_attempts
          /\ LoopContinues(attempt', max_attempts') <=> (max_attempts > 0)]_vars

\* C11 witness: after a lookup that gave no definition, all three attempts of
\* the budget were made.
C11_Witness ==
  /\ lookups = 1 /\ umls_definition = <<>>
  /\ max_attempts = 3 /\ calls = 3 /\ attempt = 3 /\ ~accepted

\* C12: the Fallback result holds the term, the caller's explanation
\* unchanged, an error marker, and a sections record whose simple_explanation
\* says that no explanation could be generated for the term and whose three
\* other fields are present and empty.
C12_FallbackHasEmptySections ==
  (pc = "done" /\ ~accepted) =>
    /\ {"term", "error", "fallback_explanation", "medical_details"} \subseteq DOMAIN result
    /\ result.term = term
    /\ result.fallback_explanation = simplified_explanation
    /\ result.medical_details.simple_explanation = <<CouldNot, SP>> \o term
    /\ DOMAIN result.medical_details = SectionNames
    /\ result.medical_details.signs_to_notice = <<>>
    /\ result.medical_details.care_advice = <<>>
    /\ result.medical_details.doctor_consultation_advice = <<>>

\* a line that begins, once stripped, with one of the four headers
C13_IsHeaderLine(rawline) ==
  LET stripped == Strip(rawline) IN stripped # <<>> /\ Head(stripped) \in HeaderTokens

\* no line of the text is a header line
C13_NoHeader(text) ==
  \A i \in 1..Len(SplitNL(text, <<>>)) : ~C13_IsHeaderLine(SplitNL(text, <<>>)[i])

\* C13: parse_gemini_response fails on no text (from every state before the
\* return the parser has a next step, and what it returns is a record of the
\* four fields), and a text in which no line is a header gives the record
\* with all four fields empty.
C13_NoHeaderGivesEmptyRecord ==
  /\ parser_pc \in {"start", "loop"} => ENABLED ParserNext
  /\ parser_pc = "done" => DOMAIN returned = SectionNames
  /\ (parser_pc = "done" /\ C13_NoHeader(raw_text)) => returned = EmptySections

\* C13 witness: a bullet line, a line with a header in its middle and a plain
\* line, read without any header line, returned the empty record.
C13_Witness ==
  /\ parser_pc = "done" /\ returned = EmptySections
  /\ raw_text = <<BULLET, SP, "cough", NL, "cough", SP, "SIGNS TO NOTICE", COLON, NL,
                  "cough", SP, "is">>

\* the coming call of the generator returns a text without any header line
C14_HeaderlessAnswer ==
  /\ pc = "loop" /\ calls' = calls + 1
  /\ GeneratorAnswer(generator, calls + 1).kind = "text"
  /\ C13_NoHeader(GeneratorAnswer(generator, calls + 1).text)

\* the attempt is rejected, nothing is raised or returned, the loop moves on
C14_RejectedAndLoopMovesOn ==
  /\ accepted' = FALSE /\ result' = NoResult
  /\ pc' = "loop" /\ attempt' = attempt + 1

\* C14 as stated: an attempt whose text has no header line is never accepted;
\* it is rejected without raising and the loop moves on.
C14_HeaderlessNeverAccepted ==
  [][C14_HeaderlessAnswer => C14_RejectedAndLoopMovesOn]_vars

\* C14 amended: an attempt whose text has no header line is rejected, without
\* raising and with the loop moving on, when the reference definition has at
\* least one key concept; when the reference definition is empty it is
\* accepted, with all four fields empty.
C14_HeaderlessRejectedUnlessEmptyReference ==
  [][C14_HeaderlessAnswer =>
       /\ extract_key_concepts(umls_definition) # {} => C14_RejectedAndLoopMovesOn
       /\ umls_definition = <<>> =>
            (accepted' /\ pc' = "done" /\ result'.medical_details = EmptySections)]_vars

\* C14 witness: against a reference with three concepts a text without any
\* header was rejected and the loop went on to a second call.
C14_Witness ==
  /\ umls_definition = DefFever /\ calls = 2 /\ attempt >= 1
  /\ generator[1] = [kind |-> "text", text |-> TextNoHeader]

\* the entries of a list, each on its own line behind the bullet marker
RECURSIVE C15_RenderList(_)
C15_RenderList(entries) ==
  IF entries = <<>> THEN <<>>
  ELSE <<BULLET, SP>> \o Head(entries) \o <<NL>> \o C15_RenderList(Tail(entries))

\* a sections record written out as the prompt asks for it: the four headers
\* in order, the two free-text fields on their header lines, the list entries
\* one per line
C15_Render(S) ==
  <<"SIMPLE EXPLANATION", COLON, SP>> \o S.simple_explanation \o <<NL>>
    \o <<"SIGNS TO NOTICE", COLON, NL>> \o C15_RenderList(S.signs_to_notice)
    \o <<"CARE ADVICE", COLON, NL>> \o C15_RenderList(S.care_advice)
    \o <<"DOCTOR CONSULTATION", COLON, SP>> \o S.doctor_consultation_advice

\* C15: a record returned by the parser, written out and parsed again, gives
\* an equal record.
C15_RoundTrip ==
  parser_pc = "done" => parse_gemini_response(C15_Render(returned)) = returned

\* the response reports the failed write in a field of its own
C16_FailureReported ==
  \/ ("database_status" \in DOMAIN http_response /\ http_response.database_status # "Success")
  \/ "errors" \in DOMAIN http_response
  \/ ("message" \in DOMAIN http_response /\ http_response.status # "success")

\* C16: in both handlers, when the write to the table fails after the
\* explanation was computed, the response still carries that explanation and
\* reports the failure beside it.
C16_PersistenceFailureKeepsExplanation ==
  (handler_pc = "responded" /\ db_outcome \in {"errors", "raises"}) =>
    /\ "explanation" \in DOMAIN http_response
    /\ http_response.explanation = Get(medical_details, "simple_explanation", <<>>)
    /\ C16_FailureReported

\* What query_gemini returns, and after how many generator calls, when it runs
\* alone with arguments and collaborator answers a, from attempt n on with
\* reference definition umls_def.
RECURSIVE C17_AloneFrom(_, _, _)
C17_AloneFrom(a, umls_def, n) ==
  IF ~LoopContinues(n, a.max_attempts)
  THEN [calls |-> n, result |-> FallbackResult(a.term, a.simplified_explanation)]
  ELSE IF GeneratorAnswer(a.generator, n + 1).kind = "error"
  THEN C17_AloneFrom(a, umls_def, n + 1)
  ELSE IF Truthy(validate_response_coverage(
                   umls_def, ParsedOf[GeneratorAnswer(a.generator, n + 1).text]))
  THEN [calls |-> n + 1,
        result |-> AcceptedResult(a.term,
                     ParsedOf[GeneratorAnswer(a.generator, n + 1).text], umls_def,
                     api_tokens_used(a.term, umls_def, a.simplified_explanation,
                                     GeneratorAnswer(a.generator, n + 1).text))]
  ELSE C17_AloneFrom(a, umls_def, n + 1)

C17_AloneDefinition(a) == first_definition(fetch_umls_data(a.term, a.lookup))

C17_Alone(a) == C17_AloneFrom(a, C17_AloneDefinition(a), 0)

\* C17: under every interleaving of two invocations for different terms, each
\* invocation's reference definition, number of attempts and returned result
\* are those of the same invocation running alone with the same collaborator
\* answers, and no step of one invocation changes the frame of the other.
C17_InvocationsIndependent ==
  \A i \in Invocations :
    /\ inv_pc[i] # "start" =>
         /\ frames[i].umls_definition = C17_AloneDefinition(inv_args[i])
         /\ frames[i].attempt <= inv_calls[i]
         /\ inv_calls[i] <= C17_Alone(inv_args[i]).calls
    /\ inv_pc[i] = "done" =>
         /\ inv_calls[i] = C17_Alone(inv_args[i]).calls
         /\ inv_result[i] = C17_Alone(inv_args[i]).result
    /\ inv_pc[i] # "done" => inv_result[i] = NoResult

\* C17 witness: both invocations have returned, the first accepted on its third
\* call against an empty reference, the second the Fallback after two
\* rejections against a reference of its own.
C17_Witness ==
  /\ inv_pc[1] = "done" /\ inv_pc[2] = "done"
  /\ inv_calls[1] = 3 /\ "total_tokens" \in DOMAIN inv_result[1]
  /\ frames[1].umls_definition = <<>>
  /\ inv_calls[2] = 2 /\ "error" \in DOMAIN inv_result[2]
  /\ frames[2].umls_definition = DefNoConcept /\ frames[2].parsed_response # NoResult

\* the for loop reads the next line
C18_ReadsLine == parser_pc = "loop" /\ unread # <<>> /\ unread' = Tail(unread)

\* the section whose header a header line begins with
C18_SectionOf(rawline) ==
  CHOOSE section \in SectionNames : Head(Strip(rawline)) \in HeaderSpellings[section]

\* the text that follows the header, and its colons and spaces, on the line
C18_TextAfterHeader(rawline) == Strip(SkipColonSpace(Tail(Strip(rawline))))

\* C18: from any state of the parser, a line that begins with one of the four
\* headers, in either case, makes that section the current one; for SIMPLE
\* EXPLANATION and DOCTOR CONSULTATION the text after the header on that line
\* becomes the content of the field; and neither list gains an entry.
C18_HeaderLineSwitchesSection ==
  [][(C18_ReadsLine /\ C13_IsHeaderLine(Head(unread))) =>
       /\ parser'.current_section = C18_SectionOf(Head(unread))
       /\ C18_SectionOf(Head(unread)) = "simple_explanation" =>
            parser'.sections.simple_explanation = C18_TextAfterHeader(Head(unread))
       /\ C18_SectionOf(Head(unread)) = "doctor_consultation_advice" =>
            parser'.sections.doctor_consultation_advice = C18_TextAfterHeader(Head(unread))
       /\ parser'.sections.signs_to_notice = parser.sections.signs_to_notice
       /\ parser'.sections.care_advice = parser.sections.care_advice]_vars

\* C18 witness: from the signs_to_notice section, with one entry in its list, a
\* DOCTOR CONSULTATION line made its section current and its text the content.
C18_Witness ==
  /\ parser_pc = "loop" /\ unread = <<>>
  /\ parser.current_section = "doctor_consultation_advice"
  /\ parser.sections.doctor_consultation_advice = <<"contagion">>
  /\ parser.sections.signs_to_notice = <<<<"cough">>>>

C19_ListSections == {"signs_to_notice", "care_advice"}

\* the stripped line begins with the bullet marker
C19_IsBulletLine(rawline) == Strip(rawline) # <<>> /\ Head(Strip(rawline)) = BULLET

\* the line without its marker (the source removes every bullet character of
\* the line) and without the whitespace around what is left
C19_Entry(rawline) == Strip(SelectSeq(Strip(rawline), LAMBDA tok : tok # BULLET))

\* in a list section a bullet line becomes the new last entry of the current
\* section's list and changes nothing else
C19_BulletAppended ==
  (parser.current_section \in C19_ListSections /\ C19_IsBulletLine(Head(unread))) =>
    /\ parser'.sections =
         [parser.sections EXCEPT ![parser.current_section] =
            Append(@, C19_Entry(Head(unread)))]
    /\ parser'.current_section = parser.current_section

\* in any other state a bullet line changes neither list
C19_BulletElsewhere ==
  (parser.current_section \notin C19_ListSections /\ C19_IsBulletLine(Head(unread))) =>
    /\ parser'.sections.signs_to_notice = parser.sections.signs_to_notice
    /\ parser'.sections.care_advice = parser.sections.care_advice

\* C19 as stated: in a list section a bullet line is appended, marker removed,
\* to the current section's list only; a line without the marker changes no
\* field; in any other state a bullet line changes neither list.
C19_BulletsOnlyAppend ==
  [][C18_ReadsLine =>
       /\ C19_BulletAppended
       /\ (parser.current_section \in C19_ListSections /\ ~C19_IsBulletLine(Head(unread)))
            => parser'.sections = parser.sections
       /\ C19_BulletElsewhere]_vars

\* C19 amended: as stated, except that the lines without the marker that
\* change no field are those that are not header lines (a SIMPLE EXPLANATION or
\* DOCTOR CONSULTATION line read in a list section sets its field).
C19_BulletsOnlyAppendExceptHeaders ==
  [][C18_ReadsLine =>
       /\ C19_BulletAppended
       /\ (/\ parser.current_section \in C19_ListSections
           /\ ~C19_IsBulletLine(Head(unread))
           /\ ~C13_IsHeaderLine(Head(unread)))
            => parser' = parser
       /\ C19_BulletElsewhere]_vars

\* C19 witness: two bullet lines read in signs_to_notice are its entries in
\* input order, the second with both of its markers removed.
C19_Witness ==
  /\ parser_pc = "loop" /\ unread = <<>>
  /\ parser.current_section = "signs_to_notice"
  /\ parser.sections.signs_to_notice = <<<<"cough">>, <<"rest", SP, "ox">>>>
  /\ parser.sections.care_advice = <<>>

\* the stripped line begins with "**"
C20_IsBoldLine(rawline) == Strip(rawline) # <<>> /\ Head(Strip(rawline)) = BOLD

\* in simple_explanation a line that is no header and does not begin with "**"
\* is appended behind a single space; a line that begins with "**" leaves
\* the field as it is
C20_Continuation ==
  /\ (~C13_IsHeaderLine(Head(unread)) /\ ~C20_IsBoldLine(Head(unread))) =>
       parser'.sections.simple_explanation =
         parser.sections.simple_explanation \o <<SP>> \o Strip(Head(unread))
  /\ C20_IsBoldLine(Head(unread)) =>
       parser'.sections.simple_explanation = parser.sections.simple_explanation

C20_OthersUnchanged ==
  /\ parser'.sections.signs_to_notice = parser.sections.signs_to_notice
  /\ parser'.sections.care_advice = parser.sections.care_advice
  /\ parser'.sections.doctor_consultation_advice =
       parser.sections.doctor_consultation_advice

\* C20 as stated: while the current section is simple_explanation, the
\* continuation rule above holds and no line changes signs_to_notice,
\* care_advice or doctor_consultation_advice.
C20_SimpleExplanationFrame ==
  [][(C18_ReadsLine /\ parser.current_section = "simple_explanation") =>
       (C20_Continuation /\ C20_OthersUnchanged)]_vars

\* C20 amended: the continuation rule holds, and no line other than a DOCTOR
\* CONSULTATION header line changes signs_to_notice, care_advice or
\* doctor_consultation_advice.
C20_SimpleExplanationFrameExceptDoctorHeader ==
  [][(C18_ReadsLine /\ parser.current_section = "simple_explanation") =>
       /\ C20_Continuation
       /\ (\/ ~C13_IsHeaderLine(Head(unread))
           \/ C18_SectionOf(Head(unread)) # "doctor_consultation_advice")
            => C20_OthersUnchanged]_vars

\* C20 witness: after the header line with its text, a bold line was skipped
\* and a plain line was appended behind one space.
C20_Witness ==
  /\ parser_pc = "loop" /\ unread = <<>>
  /\ raw_text = <<"SIMPLE EXPLANATION", COLON, SP, "fever", NL, BOLD, "fever", BOLD, NL,
                  "cough", SP, "is">>
  /\ parser.current_section = "simple_explanation"
  /\ parser.sections.simple_explanation = <<"fever", SP, "cough", SP, "is">>

\* the lookup is made once, before the first call of the generator
C21_OneLookupFirst ==
  /\ lookups <= 1
  /\ (pc = "start") <=> (lookups = 0)
  /\ calls > 0 => lookups = 1

\* the last scored attempt was parsed from its own text and scored against
\* the reference definition of the invocation
C21_ScoredAgainstReference ==
  coverage # NoCoverage =>
    /\ \E n \in 1..calls : IsText(n) /\ gemini_response_text = generator[n].text
    /\ parsed_response = parse_gemini_response(gemini_response_text)
    /\ coverage = validate_response_coverage(umls_definition, parsed_response)

\* an Accepted result carries the term, the reference definition and the
\* sections parsed from the text of the accepting call
C21_AcceptedCarriesInputs ==
  accepted =>
    /\ IsText(calls)
    /\ result.term = term
    /\ result.umls_definition = umls_definition
    /\ result.medical_details = parse_gemini_response(generator[calls].text)

\* C21: the reference lookup is made exactly once, before the first attempt;
\* after it the term and the reference definition never change, every attempt
\* is scored against that definition, and an Accepted result carries that term
\* and definition with the sections parsed from the accepting attempt's text.
C21_ReferenceResolvedOnce ==
  /\ [](C21_OneLookupFirst /\ C21_ScoredAgainstReference /\ C21_AcceptedCarriesInputs)
  /\ [][/\ term' = term
        /\ pc # "start" => (umls_definition' = umls_definition /\ lookups' = lookups)]_vars

\* C21 witness: against the reference found by the one lookup, a first text
\* was rejected and the second accepted, and the result carries that reference.
C21_Witness ==
  /\ lookups = 1 /\ umls_definition = DefFever /\ accepted /\ calls = 2
  /\ generator[1] = [kind |-> "text", text |-> TextNoOverlap]
  /\ result.umls_definition = DefFever
  /\ result.medical_details = parse_gemini_response(generator[2].text)

\* C22: in both handlers, when the handler's lookup returns an empty list of
\* definitions, the coverage is computed against the empty reference (1.0),
\* the handler goes on to write the row, and it answers with its success
\* response when the write succeeds, never with an error for the empty list.
C22_EmptyDefinitionsStillSucceed ==
  handler_definitions = <<>> =>
    /\ concept_coverage = One
    /\ handler_pc = "responded" =>
         /\ db_outcome # "none"
         /\ db_outcome = "ok" => http_response.status = "success"

\* len(s.split())
C23_Words(s) == WordCount(s, FALSE)

\* the words of the prompt of this invocation: those of the template and of
\* the three values written into it
C23_PromptWords ==
  PromptTemplateWords + C23_Words(term) + C23_Words(umls_definition)
    + C23_Words(Format(simplified_explanation))

\* C23: the decision on every attempt that returned a text is fixed by its
\* coverage alone (accepted exactly when the coverage is truthy, whatever the
\* word counts of prompt and response), and the total_tokens of an Accepted
\* result is the word count of the prompt plus that of the accepting attempt's
\* raw text, with nothing from earlier attempts.
C23_TokensDoNotDecide ==
  /\ pc # "start" =>
       \A n \in 1..calls :
         IsText(n) => (Truthy(Score(n)) <=> (accepted /\ calls = n))
  /\ accepted =>
       result.total_tokens = C23_PromptWords + C23_Words(generator[calls].text)

\* C23 witness: a short text was rejected and a longer one accepted on the
\* second call; the count is that of the prompt and of the second text.
C23_Witness ==
  /\ accepted /\ calls = 2 /\ umls_definition = DefFever
  /\ generator[1] = [kind |-> "text", text |-> TextNoOverlap]
  /\ generator[2] = [kind |-> "text", text |-> TextFull]
  /\ result.total_tokens = C23_PromptWords + C23_Words(TextFull)
  /\ C23_Words(TextFull) > C23_Words(TextNoOverlap)

====
